---- MODULE Spec2Model ----
(***************************************************************************)
(* The slice-navigation and annotation state machine of NiiExplorer        *)
(* (src/annotator.py).  One session is one NiiExplorer object: its         *)
(* attributes, the state of the Qt widgets it reads and writes, and the    *)
(* JSON files of the opened folder.  Every Qt signal handler is one        *)
(* action; a handler runs to completion, nested signal emissions included. *)
(***************************************************************************)
EXTENDS Integers, Sequences, FiniteSets, TLC

VARIABLES
    data,          \* self.data: the decoded volume (its file and shape), or None
    axis,          \* self.axis: unset until first assigned
    slice_index,   \* self.slice_index: unset until first assigned
    annotations,   \* self.annotations: filename -> axis -> list of indices
    nii_files,     \* the rows of self.file_list (the folder's sorted listing)
    current,       \* self.file_list.currentRow(), 0 when there is no current item
    axis_combo,    \* self.axis_combo.currentText()
    slice_slider,  \* self.slice_slider: minimum, maximum, value, enabled
    zoom_spin,     \* self.zoom_spin.value()
    figure,        \* what update_view drew last on self.figure
    display,       \* what update_annotation_display wrote last
    disk,          \* annotations.json and the per-file exports of self.folder
    exc,           \* the exception the last handler raised, "none" if it returned
    running,       \* FALSE once the process was aborted by an unhandled exception
    op,            \* the event whose handler ran last, with its arguments
    confirmed,     \* the (filename, axis, index) triples annotate_page recorded, in order
    atOpen,        \* the store and annotations.json as open_folder left/found them
    events         \* the number of events handled so far

vars == <<data, axis, slice_index, annotations, nii_files, current, axis_combo,
          slice_slider, zoom_spin, figure, display, disk, exc, running, op,
          confirmed, atOpen, events>>

-----------------------------------------------------------------------------
(* Bounds of the exploration *)

\* a run is explored for this many user events
MaxEvents == 4
\* a slider request may miss the valid range by this much on either side
Overshoot == 1

-----------------------------------------------------------------------------
(* Program constants *)

ZoomMin == 10
ZoomMax == 500
ZoomDefault == 100
SliderDefaultMaximum == 99

Unset == "unset"
NoIndex == 0 - 1

AxisItems == <<"axial", "coronal", "sagittal">>
Axes == {AxisItems[k] : k \in DOMAIN AxisItems}

\* update_slider's axis -> dimension table, as a 1-based position in the shape
axis_idx(a) == CASE a = "sagittal" -> 1 [] a = "coronal" -> 2 [] a = "axial" -> 3

-----------------------------------------------------------------------------
(* The environment: the folder's volume files *)

\* shape (X, Y, Z) of each decodable volume; "c.nii" cannot be decoded
Shapes == ("a.nii" :> <<1, 2, 3>>) @@ ("b.nii" :> <<2, 1, 1>>)
Corrupt == {"c.nii"}
AllFiles == <<"a.nii", "b.nii", "c.nii">>
FileNames == {AllFiles[k] : k \in DOMAIN AllFiles}
Folders == { <<>>, <<"a.nii", "b.nii">>, <<"b.nii", "c.nii">>, <<"c.nii">> }

Min2(x, y) == IF x <= y THEN x ELSE y
Max2(x, y) == IF x >= y THEN x ELSE y

RECURSIVE MaxOf(_)
MaxOf(S) == IF S = {} THEN 0
            ELSE LET x == CHOOSE y \in S : TRUE IN Max2(x, MaxOf(S \ {x}))

NoData == [loaded |-> FALSE, file |-> "", shape |-> <<0, 0, 0>>]
extent(d, a) == d.shape[axis_idx(a)]


-----------------------------------------------------------------------------
(* JSON documents.  A document on disk is text: an object is the sequence  *)
(* of its members <<key, value>> in the order json.dump writes them, and a *)
(* record's value is again such a sequence.  A file may be absent, hold    *)
(* text json.load cannot parse, or hold bytes that do not decode as text.  *)

Absent ==
    [exists |-> FALSE, decodes |-> FALSE, parses |-> FALSE, members |-> <<>>]
Undecodable ==
    [exists |-> TRUE, decodes |-> FALSE, parses |-> FALSE, members |-> <<>>]
Garbage ==
    [exists |-> TRUE, decodes |-> TRUE, parses |-> FALSE, members |-> <<>>]
Text(members) ==
    [exists |-> TRUE, decodes |-> TRUE, parses |-> TRUE, members |-> members]

EmptyStore == [f \in {} |-> <<>>]
EmptyRecord == [a \in Axes |-> <<>>]

\* json.dump of a dict: one member per key (the order among keys is the
\* dict's insertion order in Python; the model writes them in a fixed order,
\* which json.load cannot tell apart)
dump_object(obj, order) ==
    LET ks == SelectSeq(order, LAMBDA key : key \in DOMAIN obj)
    IN  [k \in DOMAIN ks |-> <<ks[k], obj[ks[k]]>>]

\* a dump of a record that leaves out the axes whose list is empty
dump_record_sparse(r) ==
    dump_object([a \in {x \in DOMAIN r : r[x] # <<>>} |-> r[a]], AxisItems)

dump_record(r) == dump_object(r, AxisItems)
json_dump(store) ==
    Text(dump_object([f \in DOMAIN store |-> dump_record(store[f])], AllFiles))

\* json.load of an object: a dict with the members' keys; of a repeated key
\* the last member wins
load_object(members) ==
    LET keys == {members[k][1] : k \in DOMAIN members}
        last(key) == MaxOf({k \in DOMAIN members : members[k][1] = key})
    IN  [key \in keys |-> members[last(key)][2]]

load_record(members) == load_object(members)
json_load(text) ==
    LET obj == load_object(text.members)
    IN  [f \in DOMAIN obj |-> load_record(obj[f])]

NoExports == [f \in FileNames |-> Absent]

-----------------------------------------------------------------------------
(* The object.  s is the NiiExplorer with its widgets; every method below  *)
(* maps s to s after the call.  A raised exception is s.exc: a method      *)
(* called while one is propagating does nothing.                           *)

NoFigure == [drawn |-> FALSE, axis |-> Unset, idx |-> NoIndex, zoom |-> 0,
             shape |-> <<0, 0>>, extent |-> <<0, 0>>]
NoDisplay == [file |-> "", pages |-> EmptyRecord]

\* __init__ up to the call of open_folder: the attributes and the widgets
\* init_ui builds (self.axis and self.slice_index are not assigned yet)
Constructed ==
    [data |-> NoData, axis |-> Unset, slice_index |-> NoIndex,
     annotations |-> EmptyStore, nii_files |-> <<>>, current |-> 0,
     axis_combo |-> AxisItems[1],
     slice_slider |-> [minimum |-> 0, maximum |-> SliderDefaultMaximum,
                       value |-> 0, enabled |-> FALSE],
     zoom_spin |-> ZoomDefault, figure |-> NoFigure, display |-> NoDisplay,
     exc |-> "none"]

raise(s, e) == [s EXCEPT !.exc = e]
has_current(s) == s.current # 0
current_text(s) == s.nii_files[s.current]

\* a bound that lets every value through
qBound_none(lo, v, hi) == v

\* Qt's qBound(min, v, max), which QAbstractSlider.setValue and
\* QSpinBox.setValue apply to the requested value
qBound(lo, v, hi) == Max2(lo, Min2(v, hi))

\* numpy basic indexing with idx in position dim (data[:, :, idx] is
\* position 3): an index outside [-n, n-1] raises, a negative one counts
\* from the end, and the result keeps the other two dimensions in order
slice_of(d, dim, idx) ==
    LET n == d.shape[dim]
        rest == SelectSeq(<<1, 2, 3>>, LAMBDA k : k # dim)
    IN  [ok |-> idx >= 0 - n /\ idx <= n - 1,
         at |-> IF idx < 0 THEN idx + n ELSE idx,
         shape |-> <<d.shape[rest[1]], d.shape[rest[2]]>>]

\* a view that indexes the volume in the reverse order of dimensions
view_dim_reversed(a) ==
    IF a = "axial" THEN 1 ELSE IF a = "coronal" THEN 2 ELSE 3

\* the position update_view puts the index in: the if / elif / else on
\* self.axis
view_dim(a) ==
    IF a = "axial" THEN 3 ELSE IF a = "coronal" THEN 2 ELSE 1

update_view(s) ==
    IF s.exc # "none" THEN s
    ELSE IF s.axis = Unset THEN raise(s, "AttributeError")
    ELSE IF ~s.data.loaded THEN raise(s, "TypeError")
    ELSE LET idx == s.slice_slider.value
             zoom == s.zoom_spin
             sl == slice_of(s.data, view_dim(s.axis), idx)
         IN  IF ~sl.ok THEN raise(s, "IndexError")
             ELSE [s EXCEPT !.figure =
                      [drawn |-> TRUE, axis |-> s.axis, idx |-> idx,
                       zoom |-> zoom, shape |-> sl.shape,
                       extent |-> <<sl.shape[1] * zoom, sl.shape[2] * zoom>>]]

on_slice_changed(s, idx) ==
    IF s.exc # "none" THEN s
    ELSE IF s.data.loaded
         THEN update_view([s EXCEPT !.slice_index = idx])
         ELSE s

\* QSlider.setValue: the value is bounded to the range, and valueChanged
\* (connected to on_slice_changed) is emitted only when the value changes
setValue(s, v) ==
    IF s.exc # "none" THEN s
    ELSE LET nv == qBound(s.slice_slider.minimum, v, s.slice_slider.maximum)
         IN  IF nv = s.slice_slider.value THEN s
             ELSE on_slice_changed([s EXCEPT !.slice_slider.value = nv], nv)

\* QSlider.setMaximum: setRange(min(minimum, m), m), which re-bounds the value
setMaximum(s, m) ==
    IF s.exc # "none" THEN s
    ELSE LET lo == Min2(s.slice_slider.minimum, m)
             t == [s EXCEPT !.slice_slider.minimum = lo,
                            !.slice_slider.maximum = Max2(lo, m)]
         IN  setValue(t, t.slice_slider.value)

\* update_slider that enables the slider but leaves its range and value
update_slider_stale(s) ==
    IF s.exc # "none" THEN s
    ELSE [s EXCEPT !.slice_slider.enabled = TRUE]

\* update_slider that sets the value to the last index, not the midpoint
update_slider_last(s) ==
    IF s.exc # "none" THEN s
    ELSE LET max_idx == extent(s.data, s.axis) - 1
             t == setMaximum(s, max_idx)
         IN  setValue([t EXCEPT !.slice_slider.enabled = TRUE], max_idx)

update_slider(s) ==
    IF s.exc # "none" THEN s
    ELSE IF s.axis \notin Axes THEN raise(s, "KeyError")
    ELSE LET max_idx == extent(s.data, s.axis) - 1
             t == setMaximum(s, max_idx)
             u == IF t.exc # "none" THEN t
                  ELSE [t EXCEPT !.slice_slider.enabled = TRUE]
         IN  setValue(u, max_idx \div 2)

\* a display that creates the record it describes (setdefault for get)
update_annotation_display_setdefault(s) ==
    IF s.exc # "none" \/ ~has_current(s) THEN s
    ELSE LET filename == current_text(s)
             annotation == IF filename \in DOMAIN s.annotations
                           THEN s.annotations[filename] ELSE EmptyRecord
             pages(a) == IF a \in DOMAIN annotation THEN annotation[a] ELSE <<>>
         IN  [s EXCEPT !.annotations =
                          (filename :> [a \in Axes |-> pages(a)]) @@ @,
                       !.display =
                          [file |-> filename, pages |-> [a \in Axes |-> pages(a)]]]

update_annotation_display(s) ==
    IF s.exc # "none" \/ ~has_current(s) THEN s
    ELSE LET filename == current_text(s)
             annotation == IF filename \in DOMAIN s.annotations
                           THEN s.annotations[filename] ELSE EmptyRecord
             pages(a) == IF a \in DOMAIN annotation THEN annotation[a] ELSE <<>>
         IN  [s EXCEPT !.display =
                 [file |-> filename, pages |-> [a \in Axes |-> pages(a)]]]

\* the slot of file_list.currentItemChanged; row is the new current row
on_file_changed(s, row) ==
    LET t == [s EXCEPT !.current = row, !.exc = "none"]
    IN  IF row = 0 THEN t
        ELSE LET file_name == t.nii_files[row]
             IN  IF file_name \in Corrupt THEN raise(t, "DecodeError")
                 ELSE update_annotation_display(update_view(update_slider(
                        [t EXCEPT !.data = [loaded |-> TRUE, file |-> file_name,
                                            shape |-> Shapes[file_name]],
                                  !.axis = t.axis_combo])))

\* the slot of axis_combo.currentTextChanged
on_axis_changed(s, a) ==
    LET t == [s EXCEPT !.axis_combo = a, !.axis = a, !.exc = "none"]
    IN  IF t.data.loaded THEN update_view(update_slider(t)) ELSE t

\* the slot of zoom_spin.valueChanged is update_view itself; QSpinBox bounds
\* the entered value to its range and emits only when the value changes
zoom_changed(s, z) ==
    LET nz == qBound(ZoomMin, z, ZoomMax)
        t == [s EXCEPT !.zoom_spin = nz, !.exc = "none"]
    IN  IF nz = s.zoom_spin THEN t ELSE update_view(t)

wheelEvent(s, delta) ==
    LET t == [s EXCEPT !.exc = "none"]
    IN  IF ~t.data.loaded \/ ~t.slice_slider.enabled THEN t
        ELSE LET step == IF delta > 0 THEN 1 ELSE -1
                 new_value == t.slice_slider.value + step
             IN  setValue(t, Max2(0, Min2(new_value, t.slice_slider.maximum)))

\* a record that is made anew on every confirm
ensure_record_fresh(store, filename) ==
    (filename :> EmptyRecord) @@ store

\* annotate_page, lines 196-197: the record of a file is created on demand
ensure_record(store, filename) ==
    IF filename \in DOMAIN store THEN store
    ELSE store @@ (filename :> EmptyRecord)

\* insert_index without the membership test of line 199
insert_index_repeat(pages, idx) ==
    SortSeq(Append(pages, idx), LAMBDA x, y : x < y)

\* insert_index without the sort of line 201
insert_index_append(pages, idx) ==
    IF \E k \in DOMAIN pages : pages[k] = idx THEN pages
    ELSE Append(pages, idx)

\* insert_index as a toggle: an index already present is taken out
insert_index_toggle(pages, idx) ==
    IF \E k \in DOMAIN pages : pages[k] = idx
    THEN SelectSeq(pages, LAMBDA x : x # idx)
    ELSE SortSeq(Append(pages, idx), LAMBDA x, y : x < y)

\* annotate_page, lines 199-201: append and sort, unless already present
insert_index(pages, idx) ==
    IF \E k \in DOMAIN pages : pages[k] = idx THEN pages
    ELSE SortSeq(Append(pages, idx), LAMBDA x, y : x < y)

annotate_page(s) ==
    LET t == [s EXCEPT !.exc = "none"]
    IN  IF ~has_current(t) THEN t
        ELSE LET filename == current_text(t)
                 a == t.axis_combo
                 idx == t.slice_slider.value
                 store == ensure_record(t.annotations, filename)
                 u == [t EXCEPT !.annotations = store]
             IN  IF a \notin DOMAIN store[filename] THEN raise(u, "KeyError")
                 ELSE update_annotation_display(
                        [u EXCEPT !.annotations[filename][a] =
                                     insert_index(store[filename][a], idx)])

\* export_current_annotation without the test for a current item: it goes
\* on with the first key of the store
export_current_unguarded(s, d) ==
    LET known == SelectSeq(AllFiles, LAMBDA f : f \in DOMAIN s.annotations)
        filename == IF has_current(s) THEN current_text(s) ELSE known[1]
    IN  IF has_current(s) \/ Len(known) > 0
        THEN IF filename \in DOMAIN s.annotations
                /\ DOMAIN s.annotations[filename] # {}
             THEN [d EXCEPT !.one[filename] =
                      Text(<< <<filename, dump_record(s.annotations[filename])>> >>)]
             ELSE d
        ELSE d

\* the disk after export_current_annotation; a dict is true when non-empty
export_current_annotation(s, d) ==
    IF ~has_current(s) THEN d
    ELSE LET filename == current_text(s)
         IN  IF filename \in DOMAIN s.annotations
                /\ DOMAIN s.annotations[filename] # {}
             THEN [d EXCEPT !.one[filename] =
                      Text(<< <<filename, dump_record(s.annotations[filename])>> >>)]
             ELSE d

\* save_annotations that writes a key for every listed file
save_annotations_listed(s, d) ==
    [d EXCEPT !.all =
        json_dump([f \in DOMAIN s.annotations
                         \cup {s.nii_files[k] : k \in DOMAIN s.nii_files} |->
                     IF f \in DOMAIN s.annotations THEN s.annotations[f]
                     ELSE EmptyRecord])]

\* the disk after save_annotations
save_annotations(s, d) == [d EXCEPT !.all = json_dump(s.annotations)]

load_files(s, folder) ==
    LET t == [s EXCEPT !.nii_files = folder]
    IN  IF Len(folder) > 0 THEN on_file_changed(t, 1) ELSE t

\* called by open_folder after load_files has returned: an exception of the
\* slot on_file_changed does not reach it.  json.load reads the text-mode
\* file first: bytes that do not decode raise UnicodeDecodeError, which the
\* except clause for json.JSONDecodeError does not catch
load_existing_annotations(s, d) ==
    IF ~d.all.exists THEN s
    ELSE IF ~d.all.decodes THEN raise(s, "UnicodeDecodeError")
    ELSE IF d.all.parses THEN [s EXCEPT !.annotations = json_load(d.all)]
    ELSE s

\* an exception of load_existing_annotations leaves open_folder, __init__
\* and the main block: the process ends before the window is shown
survives_init(s) == s.exc # "UnicodeDecodeError"

open_folder(s, folder, d, aborted) ==
    LET t == load_files(s, folder)
    IN  IF aborted THEN t ELSE load_existing_annotations(t, d)

-----------------------------------------------------------------------------
(* The session *)

\* annotations.json as the folder may hold it when it is first opened: no
\* file, bytes that are not text, text that is not JSON, a file this
\* program exported, and files that parse but were not written by
\* save_annotations
DocExported ==
    Text(<< <<"a.nii", << <<"axial", <<0, 2>>>>, <<"coronal", <<>>>>,
                          <<"sagittal", <<>>>> >> >> >>)
DocForeign ==
    Text(<< <<"a.nii", << <<"axial", <<>>>>, <<"coronal", <<1, 1>>>>,
                          <<"sagittal", <<>>>> >> >>,
            <<"b.nii", << <<"axial", <<>>>>, <<"coronal", <<>>>>,
                          <<"sagittal", <<1, 0>>>> >> >> >>)
DocPartial == Text(<< <<"a.nii", << <<"axial", <<1>>>> >> >>,
                      <<"b.nii", <<>>>> >>)
InitialDocs ==
    {Absent, Undecodable, Garbage, DocExported, DocForeign, DocPartial}

IndexRequests ==
    (0 - Overshoot) ..
    (MaxOf({Shapes[f][k] : f \in DOMAIN Shapes, k \in 1..3}) - 1 + Overshoot)
ZoomRequests == {ZoomDefault, ZoomMax + 1}
WheelDeltas == {-120, 120}

Op(name, i, a) == [name |-> name, i |-> i, a |-> a]

Self ==
    [data |-> data, axis |-> axis, slice_index |-> slice_index,
     annotations |-> annotations, nii_files |-> nii_files, current |-> current,
     axis_combo |-> axis_combo, slice_slider |-> slice_slider,
     zoom_spin |-> zoom_spin, figure |-> figure, display |-> display,
     exc |-> exc]

\* an exception that leaves a slot unhandled is reported and, depending on
\* the PyQt5 version, either ends the process or lets the event loop go on
Outcomes(s) == IF s.exc = "none" THEN {TRUE} ELSE BOOLEAN

Commit(s, d, o, c, alive) ==
    /\ events < MaxEvents
    /\ events' = events + 1
    /\ data' = s.data
    /\ axis' = s.axis
    /\ slice_index' = s.slice_index
    /\ annotations' = s.annotations
    /\ nii_files' = s.nii_files
    /\ current' = s.current
    /\ axis_combo' = s.axis_combo
    /\ slice_slider' = s.slice_slider
    /\ zoom_spin' = s.zoom_spin
    /\ figure' = s.figure
    /\ display' = s.display
    /\ exc' = s.exc
    /\ disk' = d
    /\ op' = o
    /\ confirmed' = c
    /\ running' = alive

Init ==
    \E folder \in Folders, doc \in InitialDocs :
      LET d == [all |-> doc, one |-> NoExports]
      IN  \E alive \in Outcomes(load_files(Constructed, folder)) :
            LET s == open_folder(Constructed, folder, d, ~alive)
            IN  /\ data = s.data
                /\ axis = s.axis
                /\ slice_index = s.slice_index
                /\ annotations = s.annotations
                /\ nii_files = s.nii_files
                /\ current = s.current
                /\ axis_combo = s.axis_combo
                /\ slice_slider = s.slice_slider
                /\ zoom_spin = s.zoom_spin
                /\ figure = s.figure
                /\ display = s.display
                /\ exc = s.exc
                /\ disk = d
                /\ op = Op("open_folder", NoIndex, "")
                /\ confirmed = <<>>
                /\ running = (alive /\ survives_init(s))
                /\ atOpen = [annotations |-> s.annotations, disk |-> d]
                /\ events = 0

\* the user closes the window (or the process was aborted) and starts the
\* program again on the same folder
Restart ==
    \E alive \in Outcomes(load_files(Constructed, nii_files)) :
      LET s == open_folder(Constructed, nii_files, disk, ~alive)
      IN  /\ Commit(s, disk, Op("open_folder", NoIndex, ""), <<>>,
                    alive /\ survives_init(s))
          /\ atOpen' = [annotations |-> s.annotations, disk |-> disk]

SelectFile(row) ==
    /\ running
    /\ row # current
    /\ LET s == on_file_changed(Self, row)
       IN  \E alive \in Outcomes(s) :
             Commit(s, disk, Op("on_file_changed", row, ""), confirmed, alive)
    /\ UNCHANGED atOpen

SelectAxis(a) ==
    /\ running
    /\ a # axis_combo
    /\ LET s == on_axis_changed(Self, a)
       IN  \E alive \in Outcomes(s) :
             Commit(s, disk, Op("on_axis_changed", NoIndex, a), confirmed, alive)
    /\ UNCHANGED atOpen

\* the user (or a caller) asks the slider for value i
MoveSlider(i) ==
    /\ running
    /\ slice_slider.enabled
    /\ LET s == setValue([Self EXCEPT !.exc = "none"], i)
       IN  \E alive \in Outcomes(s) :
             Commit(s, disk, Op("setValue", i, ""), confirmed, alive)
    /\ UNCHANGED atOpen

Wheel(delta) ==
    /\ running
    /\ LET s == wheelEvent(Self, delta)
       IN  \E alive \in Outcomes(s) :
             Commit(s, disk, Op("wheelEvent", delta, ""), confirmed, alive)
    /\ UNCHANGED atOpen

SetZoom(z) ==
    /\ running
    /\ LET s == zoom_changed(Self, z)
       IN  \E alive \in Outcomes(s) :
             Commit(s, disk, Op("zoom_changed", z, ""), confirmed, alive)
    /\ UNCHANGED atOpen

\* a confirm that also saves the store to annotations.json
PressConfirm_autosave ==
    /\ running
    /\ LET s == annotate_page(Self)
           c == IF has_current(Self) /\ s.exc = "none"
                THEN Append(confirmed, <<current_text(Self), axis_combo,
                                         slice_slider.value>>)
                ELSE confirmed
       IN  \E alive \in Outcomes(s) :
             Commit(s, save_annotations(s, disk),
                    Op("annotate_page", NoIndex, ""), c, alive)
    /\ UNCHANGED atOpen

\* the Confirm button or the G key on the canvas
PressConfirm ==
    /\ running
    /\ LET s == annotate_page(Self)
           c == IF has_current(Self) /\ s.exc = "none"
                THEN Append(confirmed, <<current_text(Self), axis_combo,
                                         slice_slider.value>>)
                ELSE confirmed
       IN  \E alive \in Outcomes(s) :
             Commit(s, disk, Op("annotate_page", NoIndex, ""), c, alive)
    /\ UNCHANGED atOpen

ClickExportCurrent ==
    /\ running
    /\ Commit([Self EXCEPT !.exc = "none"], export_current_annotation(Self, disk),
              Op("export_current_annotation", NoIndex, ""), confirmed, TRUE)
    /\ UNCHANGED atOpen

ClickExportAll ==
    /\ running
    /\ Commit([Self EXCEPT !.exc = "none"], save_annotations(Self, disk),
              Op("save_annotations", NoIndex, ""), confirmed, TRUE)
    /\ UNCHANGED atOpen

Next ==
    \/ Restart
    \/ \E row \in 1..Len(nii_files) : SelectFile(row)
    \/ \E a \in Axes : SelectAxis(a)
    \/ \E i \in IndexRequests : MoveSlider(i)
    \/ \E delta \in WheelDeltas : Wheel(delta)
    \/ \E z \in ZoomRequests : SetZoom(z)
    \/ PressConfirm
    \/ ClickExportCurrent
    \/ ClickExportAll

Spec == Init /\ [][Next]_vars

-----------------------------------------------------------------------------
(* Vocabulary of the properties *)

\* the object as the step leaves it
SelfAfter ==
    [data |-> data', axis |-> axis', slice_index |-> slice_index',
     annotations |-> annotations', nii_files |-> nii_files', current |-> current',
     axis_combo |-> axis_combo', slice_slider |-> slice_slider',
     zoom_spin |-> zoom_spin', figure |-> figure', display |-> display',
     exc |-> exc']

StrictlyAscending(q) == \A i, j \in DOMAIN q : i < j => q[i] < q[j]

\* the ascending enumeration of a finite set of integers
AscendingSeq(S) ==
    CHOOSE q \in [1..Cardinality(S) -> S] : StrictlyAscending(q)

\* the indices the session confirmed for file f and axis a
ConfirmedFor(f, a) ==
    {confirmed[k][3] : k \in {n \in DOMAIN confirmed :
                                 confirmed[n][1] = f /\ confirmed[n][2] = a}}
ConfirmedFiles == {confirmed[k][1] : k \in DOMAIN confirmed}

Clamp(i, n) == Max2(0, Min2(i, n - 1))

-----------------------------------------------------------------------------
(* C1 *)

\* C1: in every reachable state every per-axis list of every record of the
\* store is duplicate-free and strictly ascending.  The code does not keep
\* this for a store loaded from an annotations.json that parses but holds
\* unsorted or repeated indices: load_existing_annotations takes it as is.
C1_SortedUnique ==
    \A f \in DOMAIN annotations : \A a \in DOMAIN annotations[f] :
        StrictlyAscending(annotations[f][a])

-----------------------------------------------------------------------------
(* C2 *)

\* C2: confirm is idempotent: whenever annotate_page has run, running it
\* once more on the state it left (same file, axis and index) leaves the
\* store as it is.
C2_ConfirmIdempotent ==
    [][op'.name = "annotate_page"
         => annotate_page(SelfAfter).annotations = annotations']_vars

\* the same triple was confirmed twice in a row and is recorded once
C2_Witness ==
    /\ op.name = "annotate_page"
    /\ Len(confirmed) >= 2
    /\ confirmed[Len(confirmed)] = confirmed[Len(confirmed) - 1]
    /\ LET c == confirmed[Len(confirmed)]
       IN  Cardinality({k \in DOMAIN annotations[c[1]][c[2]] :
                          annotations[c[1]][c[2]][k] = c[3]}) = 1

-----------------------------------------------------------------------------
(* C3 *)

\* C3: for a file that had no record when the folder was opened, the record
\* exists exactly when the session confirmed an index for it, and each of
\* its three lists is the ascending sequence of the distinct indices
\* confirmed for that axis (empty for an axis never confirmed), whatever the
\* order and the repeats of the confirms.
C3_ConfirmOrdering ==
    \A f \in FileNames \ DOMAIN atOpen.annotations :
        /\ f \in DOMAIN annotations <=> f \in ConfirmedFiles
        /\ f \in DOMAIN annotations =>
              /\ DOMAIN annotations[f] = Axes
              /\ \A a \in Axes :
                    annotations[f][a] = AscendingSeq(ConfirmedFor(f, a))

\* two indices confirmed in descending order are listed in ascending order
C3_Witness ==
    /\ op.name = "annotate_page"
    /\ Len(confirmed) = 2
    /\ confirmed[1][1] = confirmed[2][1]
    /\ confirmed[1][1] \notin DOMAIN atOpen.annotations
    /\ confirmed[1][2] = confirmed[2][2]
    /\ confirmed[1][3] > confirmed[2][3]
    /\ annotations[confirmed[1][1]][confirmed[1][2]]
          = <<confirmed[2][3], confirmed[1][3]>>

-----------------------------------------------------------------------------
(* C4 *)

\* C4: with a volume loaded, a request to set the slider to any integer i
\* leaves the index at max(0, min(i, extent - 1)) for the selected axis of
\* the loaded volume, and a scroll step leaves it at the same bound of the
\* previous index plus or minus one; neither raises.
C4_Clamping ==
    [][/\ (op'.name = "setValue" /\ data.loaded) =>
            /\ slice_slider'.value = Clamp(op'.i, extent(data, axis_combo))
            /\ exc' = "none"
       /\ (op'.name = "wheelEvent" /\ data.loaded) =>
            /\ slice_slider'.value =
                 Clamp(slice_slider.value + (IF op'.i > 0 THEN 1 ELSE -1),
                       extent(data, axis_combo))
            /\ exc' = "none"]_vars

\* a request beyond the last slice of an axis with several slices ended at
\* the last slice
C4_Witness ==
    /\ op.name = "setValue"
    /\ data.loaded
    /\ extent(data, axis_combo) > 1
    /\ op.i > extent(data, axis_combo) - 1
    /\ slice_slider.value = extent(data, axis_combo) - 1

-----------------------------------------------------------------------------
(* C5 *)

\* C5: whenever a volume is loaded, the slider's value (the index update_view
\* renders and annotate_page records) lies in [0, extent - 1] for the
\* selected axis of the loaded volume, it is the index of the slice drawn
\* last, and no render has been indexed out of bounds.
C5_IndexInRange ==
    data.loaded =>
        /\ axis = axis_combo
        /\ slice_slider.value \in 0 .. (extent(data, axis_combo) - 1)
        /\ figure.drawn /\ figure.axis = axis /\ figure.idx = slice_slider.value
        /\ exc # "IndexError"

\* axial index 2 of a.nii was confirmed, then the file with the smaller
\* volume was selected: its only axial slice is shown
C5_Witness ==
    /\ op.name = "on_file_changed"
    /\ \E k \in DOMAIN confirmed : confirmed[k] = <<"a.nii", "axial", 2>>
    /\ data.loaded /\ data.file = "b.nii"
    /\ axis_combo = "axial"
    /\ extent(data, "axial") < Shapes["a.nii"][axis_idx("axial")]
    /\ slice_slider.value = 0
    /\ figure.idx = 0

-----------------------------------------------------------------------------
(* C6 *)

\* C6: after an axis has been selected with a volume loaded, the index is
\* the midpoint floor((extent - 1) / 2) of the new axis's range and the view
\* drawn is the slice of that axis at that index.
C6_AxisReset ==
    (op.name = "on_axis_changed" /\ data.loaded) =>
        /\ axis_combo = op.a /\ axis = op.a
        /\ slice_slider.value = (extent(data, op.a) - 1) \div 2
        /\ slice_slider.maximum = extent(data, op.a) - 1
        /\ figure.drawn
        /\ figure.axis = op.a
        /\ figure.idx = slice_slider.value
        /\ figure.shape = slice_of(data, axis_idx(op.a), slice_slider.value).shape
        /\ exc = "none"

\* back on the axial axis of the volume with three axial slices, at index 1
C6_Witness ==
    /\ op.name = "on_axis_changed"
    /\ op.a = "axial"
    /\ data.loaded /\ data.file = "a.nii"
    /\ slice_slider.value = 1
    /\ figure.axis = "axial" /\ figure.idx = 1

-----------------------------------------------------------------------------
(* C7 *)

\* C7: when save_annotations is followed by a fresh session on the same
\* folder that gets as far as load_existing_annotations, the fresh session's
\* store equals the store that was exported: the same filenames and, for
\* each, the same per-axis lists.
C7_RoundTrip ==
    [][(op.name = "save_annotations" /\ op'.name = "open_folder" /\ running')
         => annotations' = annotations]_vars

\* a fresh session holds a store that an earlier session confirmed and
\* exported
C7_Witness ==
    /\ op.name = "open_folder"
    /\ running
    /\ events > 0
    /\ atOpen.disk.all \notin InitialDocs
    /\ atOpen.disk.all = json_dump(annotations)
    /\ \E f \in DOMAIN annotations : \E a \in DOMAIN annotations[f] :
          annotations[f][a] # <<>>

-----------------------------------------------------------------------------
(* C8 *)

\* what save_annotations wrote, read back
Exported == json_load(disk.all)

Scenario8 ==
    /\ op.name = "save_annotations"
    /\ nii_files = <<"a.nii", "b.nii">>
    /\ atOpen.annotations = EmptyStore
    /\ Len(confirmed) = 1
    /\ confirmed[1][1] = "a.nii" /\ confirmed[1][2] = "axial"

\* C8 as stated: after a single confirm of an axial index on "a.nii" in a
\* folder of "a.nii" and "b.nii", the exported mapping has both keys, with
\* "b.nii" mapped to three empty lists.
C8_BothKeys ==
    Scenario8 =>
        /\ DOMAIN Exported = {"a.nii", "b.nii"}
        /\ Exported["b.nii"] = EmptyRecord
        /\ Exported["a.nii"] =
             [EmptyRecord EXCEPT !["axial"] = <<confirmed[1][3]>>]

\* C8 as amended: the exported mapping is the store; its keys are the files
\* that had a record when the folder was opened and the files confirmed in
\* the session, so in the scenario it has the one key "a.nii" (axial list
\* with the confirmed index, the other two empty) and no key "b.nii".
C8_OnlyRecordedKeys ==
    (op.name = "save_annotations") =>
        /\ Exported = annotations
        /\ DOMAIN Exported = DOMAIN atOpen.annotations \cup ConfirmedFiles
        /\ Scenario8 =>
              /\ DOMAIN Exported = {"a.nii"}
              /\ Exported["a.nii"] =
                   [EmptyRecord EXCEPT !["axial"] = <<confirmed[1][3]>>]

C8_Witness ==
    /\ Scenario8
    /\ "b.nii" \notin DOMAIN Exported
    /\ Exported["a.nii"]["axial"] = <<confirmed[1][3]>>

-----------------------------------------------------------------------------
(* C9 *)

\* C9: while no volume is loaded, an axis change, an index change by slider
\* or scroll and a zoom change raise no error and leave the volume, the
\* store and the files on disk as they were.  The zoom change fails this:
\* its slot is update_view, which reads self.axis and subscripts self.data
\* without testing for a loaded volume.
C9_InertBeforeLoad ==
    [][(~data.loaded /\ op'.name \in {"on_axis_changed", "setValue",
                                       "wheelEvent", "zoom_changed"})
         => /\ exc' = "none"
            /\ data' = data /\ annotations' = annotations /\ disk' = disk]_vars

-----------------------------------------------------------------------------
(* C10 *)

\* C10 as stated: with no file selected, confirm, export-current and
\* export-all each return without error and leave the store and every file
\* on disk unchanged.
C10_AllIgnored ==
    [][(current = 0 /\ op'.name \in {"annotate_page", "export_current_annotation",
                                      "save_annotations"})
         => /\ exc' = "none"
            /\ annotations' = annotations /\ disk' = disk]_vars

\* C10 as amended: with no file selected, confirm and export-current return
\* without error and leave the store and every file on disk unchanged;
\* export-all is not ignored: it returns without error, leaves the store and
\* the per-file exports unchanged and writes the store to annotations.json.
C10_IgnoredButExportAll ==
    [][/\ (current = 0 /\ op'.name \in {"annotate_page",
                                          "export_current_annotation"})
            => /\ exc' = "none"
               /\ annotations' = annotations /\ disk' = disk
       /\ (current = 0 /\ op'.name = "save_annotations")
            => /\ exc' = "none"
               /\ annotations' = annotations
               /\ disk'.one = disk.one
               /\ disk'.all = json_dump(annotations)]_vars

\* export-current and then confirm ran with no file selected on a loaded,
\* non-empty store, and nothing was recorded or written
C10_Witness ==
    /\ current = 0
    /\ op.name \in {"annotate_page", "export_current_annotation"}
    /\ events >= 2
    /\ annotations # EmptyStore
    /\ annotations = atOpen.annotations
    /\ disk = atOpen.disk

-----------------------------------------------------------------------------
(* C11 *)

\* annotations.json exists and is not JSON text
NotJson(doc) == doc.exists /\ (~doc.decodes \/ ~doc.parses)

\* C11: when annotations.json is missing or is not valid JSON, opening the
\* folder leaves the store empty and the session running (whatever the
\* first volume's decode did is set aside).  The code does not keep this
\* for a file whose bytes do not decode as text: only json.JSONDecodeError
\* is caught, and the UnicodeDecodeError ends the process in __init__.
C11_LoadNeverAborts ==
    (/\ op.name = "open_folder"
     /\ ~atOpen.disk.all.exists \/ NotJson(atOpen.disk.all)
     /\ exc # "DecodeError")
        => running /\ exc = "none" /\ annotations = EmptyStore

-----------------------------------------------------------------------------
(* C12 *)

ExportEvents == {"export_current_annotation", "save_annotations"}

\* C12: no autosave: a step that is not an export action (a file selection,
\* an axis, index or zoom change, a confirm, the opening of the folder)
\* leaves annotations.json and every per-file export as they were, so as
\* long as no export has run the disk is as the folder was opened.
C12_NoAutosave ==
    [][op'.name \notin ExportEvents => disk' = disk]_vars

\* a confirm changed the store and the disk is still as at folder open
C12_Witness ==
    /\ op.name = "annotate_page"
    /\ Len(confirmed) >= 1
    /\ annotations # atOpen.annotations
    /\ disk = atOpen.disk

-----------------------------------------------------------------------------
(* C13 *)

\* C13: the export of the current file: when the store has a record for the
\* selected file, <filename>_annotation.json afterwards holds exactly the
\* single-key mapping {filename: record}; when it has none, no file is
\* written; the store and annotations.json are as before in both cases.
C13_ExportOne ==
    [][(op'.name = "export_current_annotation" /\ has_current(Self))
          => LET filename == current_text(Self)
             IN  /\ annotations' = annotations
                 /\ disk'.all = disk.all
                 /\ \A f \in FileNames \ {filename} : disk'.one[f] = disk.one[f]
                 /\ IF filename \in DOMAIN annotations
                    THEN /\ disk'.one[filename].parses
                         /\ json_load(disk'.one[filename])
                              = (filename :> annotations[filename])
                    ELSE disk'.one[filename] = disk.one[filename]]_vars

-----------------------------------------------------------------------------
(* C14 *)

\* what the label shows for file f: its recorded lists, empty where there
\* is no record or the record has no list for the axis
Described(f) ==
    [a \in Axes |-> IF f \in DOMAIN annotations /\ a \in DOMAIN annotations[f]
                    THEN annotations[f][a] ELSE <<>>]

\* C14: describing a file never changes the store: a file selection, which
\* describes the selected file, leaves the store as it was (no record is
\* created for a file without one), and the label then shows the file's
\* recorded lists, all empty where nothing is recorded.
C14_DescribeReadOnly ==
    [][op'.name = "on_file_changed"
          => /\ annotations' = annotations
             /\ update_annotation_display(Self).annotations = annotations
             /\ (exc' = "none" /\ current' # 0)
                   => /\ display'.file = nii_files[current']
                      /\ display'.pages = Described(nii_files[current'])]_vars

\* a file without a record was selected and described in a session whose
\* store holds records of other files only
C14_Witness ==
    /\ op.name = "on_file_changed"
    /\ exc = "none"
    /\ has_current(Self)
    /\ current_text(Self) \notin DOMAIN annotations
    /\ annotations # EmptyStore
    /\ display.file = current_text(Self)
    /\ display.pages = EmptyRecord

-----------------------------------------------------------------------------
(* C15 *)

\* the dimension of the volume each axis name stands for
Dimension == [sagittal |-> 1, coronal |-> 2, axial |-> 3]

\* the two remaining extents of a volume shape, in order
Others(shape, k) ==
    IF k = 1 THEN <<shape[2], shape[3]>>
    ELSE IF k = 2 THEN <<shape[1], shape[3]>>
    ELSE <<shape[1], shape[2]>>

\* C15: one binding of axis to dimension serves the slider and the view:
\* while a volume is loaded the slider ranges over 0 .. extent - 1 of the
\* dimension of the selected axis (sagittal the first, coronal the second,
\* axial the third), the view drawn is the slice at the slider's index with
\* that dimension fixed, so its shape is the other two extents, and no slice
\* is ever taken out of bounds.
C15_AxisBinding ==
    data.loaded
        => /\ axis = axis_combo
           /\ slice_slider.minimum = 0
           /\ slice_slider.maximum = data.shape[Dimension[axis]] - 1
           /\ slice_slider.value \in 0 .. slice_slider.maximum
           /\ figure.drawn
           /\ figure.axis = axis
           /\ figure.idx = slice_slider.value
           /\ figure.shape = Others(data.shape, Dimension[axis])
           /\ exc # "IndexError"

\* the last coronal slice of the 1 x 2 x 3 volume is shown, 1 x 3 pixels
C15_Witness ==
    /\ data.loaded
    /\ data.shape = <<1, 2, 3>>
    /\ axis = "coronal"
    /\ op.name = "setValue"
    /\ slice_slider.value = 1
    /\ slice_slider.maximum = 1
    /\ figure.shape = <<1, 3>>

-----------------------------------------------------------------------------
(* C16 *)

\* C16: the frame of a confirm: with file f selected on axis a, a confirm
\* changes at most the list of axis a in the record of f. The records of the
\* other files, the lists of the other axes of f (empty in a record made by
\* this confirm), the loaded volume, the selected file, the axis, the index,
\* the zoom and the view drawn are as before.
C16_ConfirmFrame ==
    [][(op'.name = "annotate_page" /\ has_current(Self))
          => LET f == current_text(Self)
                 a == axis_combo
             IN  /\ DOMAIN annotations' \subseteq DOMAIN annotations \cup {f}
                 /\ \A g \in DOMAIN annotations \ {f} :
                       g \in DOMAIN annotations' /\ annotations'[g] = annotations[g]
                 /\ f \in DOMAIN annotations
                       => /\ f \in DOMAIN annotations'
                          /\ DOMAIN annotations'[f] = DOMAIN annotations[f]
                          /\ \A b \in DOMAIN annotations[f] \ {a} :
                                annotations'[f][b] = annotations[f][b]
                 /\ f \notin DOMAIN annotations
                       => /\ f \in DOMAIN annotations'
                          /\ \A b \in Axes \ {a} : annotations'[f][b] = <<>>
                 /\ UNCHANGED <<data, nii_files, current, axis, axis_combo,
                                slice_index, slice_slider, zoom_spin, figure>>]_vars

\* a confirm added an index for one axis of a file that has indices
\* recorded for another axis, in a store with a record of another file
C16_Witness ==
    /\ op.name = "annotate_page"
    /\ exc = "none"
    /\ has_current(Self)
    /\ Len(confirmed) >= 1
    /\ LET f == current_text(Self)
       IN  /\ confirmed[Len(confirmed)][1] = f
           /\ confirmed[Len(confirmed)][2] = axis_combo
           /\ f \in DOMAIN annotations
           /\ f \in DOMAIN atOpen.annotations
           /\ annotations[f] # atOpen.annotations[f]
           /\ \E b \in Axes \ {axis_combo} :
                 b \in DOMAIN annotations[f] /\ annotations[f][b] # <<>>
           /\ \E g \in DOMAIN annotations : g # f

-----------------------------------------------------------------------------
(* C17 *)

\* C17: every index a confirm records for file f and axis a lies within
\* 0 .. extent - 1 of that axis in f's own volume: at a confirm the volume
\* held is the volume of the selected file, also after a file selection
\* whose decode failed.
C17_IndexWithinOwnVolume ==
    /\ \A k \in DOMAIN confirmed :
          LET f == confirmed[k][1]
              a == confirmed[k][2]
              i == confirmed[k][3]
          IN  /\ f \in DOMAIN Shapes
              /\ i \in 0 .. Shapes[f][Dimension[a]] - 1
    /\ (op.name = "annotate_page" /\ has_current(Self))
          => data.loaded /\ data.file = current_text(Self)

-----------------------------------------------------------------------------
(* C18 *)

\* C18: every record of the store, the records loaded from annotations.json
\* included, has exactly the three axis fields, so a confirm with a file
\* selected never fails for a missing field.
C18_ThreeAxisFields ==
    /\ \A f \in DOMAIN annotations : DOMAIN annotations[f] = Axes
    /\ (op.name = "annotate_page" /\ has_current(Self)) => exc = "none"

-----------------------------------------------------------------------------
(* C19 *)

\* the elements of a list
Indices(pages) == {pages[k] : k \in DOMAIN pages}

\* C19: within a session the store only grows: no step after the opening of
\* the folder removes a record, a field of a record or an index of a list,
\* and no list gets shorter; what was confirmed for a file is still there
\* after switching to another file and back, after axis changes and after
\* exports.
C19_StoreOnlyGrows ==
    [][op'.name # "open_folder"
          => \A f \in DOMAIN annotations :
               /\ f \in DOMAIN annotations'
               /\ \A a \in DOMAIN annotations[f] :
                     /\ a \in DOMAIN annotations'[f]
                     /\ Indices(annotations[f][a])
                           \subseteq Indices(annotations'[f][a])
                     /\ Len(annotations[f][a]) <= Len(annotations'[f][a])]_vars

\* an index confirmed for the first file is still recorded and shown after
\* switching to the other file and back
C19_Witness ==
    /\ op.name = "on_file_changed"
    /\ exc = "none"
    /\ current = 1
    /\ Len(nii_files) = 2
    /\ Len(confirmed) >= 1
    /\ LET f == confirmed[1][1]
           a == confirmed[1][2]
           i == confirmed[1][3]
       IN  /\ f = nii_files[1]
           /\ f \notin DOMAIN atOpen.annotations
           /\ i \in Indices(annotations[f][a])
           /\ i \in Indices(display.pages[a])

====
